---- MODULE Spec2Model ----
(***************************************************************************)
(* MayaSpeechify client: the worker pool of worker.go (processFiles,       *)
(* worker, processSingleFile) together with the parts of main.go that      *)
(* drive it (run, printSummary, getOutputPath, the process exit status).   *)
(*                                                                         *)
(* Paths and file contents are sequences of one-character strings, so that *)
(* filepath.Ext / strings.TrimSuffix and os.WriteFile are computed on      *)
(* their real representation.                                              *)
(***************************************************************************)
EXTENDS Integers, Sequences, FiniteSets, TLC

\* ------------------------------------------------------------------ bounds
\* Largest number of files the scanner returns in a run.
MaxJobs == 2

\* Smallest value of config.Timeout main accepts, in seconds.
MinTimeout == 1

\* Largest value of config.Workers (the -workers flag).
MaxWorkers == 2

\* ------------------------------------------------------- paths and strings
\* The paths the scanner can return, in the lexical order of filepath.Walk
\* and os.ReadDir (upper case sorts before lower case).
ScanPaths ==
    << <<"a", ".", "T", "X", "T">>,
       <<"a", ".", "t", "x", "t">>,
       <<"d", "/", "b", ".", "t", "x", "t">> >>

\* strings.HasSuffix
HasSuffix(s, suffix) ==
    /\ Len(suffix) <= Len(s)
    /\ SubSeq(s, Len(s) - Len(suffix) + 1, Len(s)) = suffix

\* strings.TrimSuffix: s without the trailing suffix, s itself when it does not end in it
TrimSuffix(s, suffix) ==
    IF HasSuffix(s, suffix) THEN SubSeq(s, 1, Len(s) - Len(suffix)) ELSE s

\* filepath.Ext: scan down from the end to the last dot of the last element
RECURSIVE ExtFrom(_, _)
ExtFrom(path, i) ==
    IF i = 0 \/ path[i] = "/" THEN <<>>
    ELSE IF path[i] = "." THEN SubSeq(path, i, Len(path))
    ELSE ExtFrom(path, i - 1)

Ext(path) == ExtFrom(path, Len(path))

\* getOutputPath, mutated: the extension is appended without trimming the old one
getOutputPath_Append(inputPath) == inputPath \o <<".", "m", "p", "3">>

getOutputPath(inputPath) ==
    TrimSuffix(inputPath, Ext(inputPath)) \o <<".", "m", "p", "3">>

\* ------------------------------------------------------------- file system
\* A destination path either holds no file or a file with some bytes.
NoFile == [exists |-> FALSE, data |-> <<>>]
File(bytes) == [exists |-> TRUE, data |-> bytes]

\* Content of an .mp3 left by an earlier run.
OldData == <<"O", "L", "D">>

DestPaths == {getOutputPath(ScanPaths[i]) : i \in DOMAIN ScanPaths}

\* A write of bytes at offset 0 of a file holding old (the file is not
\* shortened by the write itself, only by the O_TRUNC of the open).
WriteAt0(old, bytes) ==
    bytes \o SubSeq(old, Len(bytes) + 1, Len(old))

\* ---------------------------------------------------------------- endpoint
\* Bodies the endpoint can send.
Bodies == { <<>>, <<"I", "D">> }
\* Status codes the endpoint can answer with.
Statuses == {200, 201, 500}

\* ------------------------------------------------------------------ errors
\* A Go error value: kind is the message prefix processSingleFile wraps with,
\* cause the wrapped error, status/body the data of "server returned status".
NilErr == [kind |-> "nil", cause |-> "", status |-> 0, body |-> <<>>]
Err(kind, cause) == [kind |-> kind, cause |-> cause, status |-> 0, body |-> <<>>]
StatusErr(status, body) ==
    [kind |-> "server returned status", cause |-> "", status |-> status, body |-> body]

\* The job lists the scanner can return: any at most MaxJobs of ScanPaths, in order.
RECURSIVE Pick(_, _)
Pick(idx, i) ==
    IF i > Len(ScanPaths) THEN <<>>
    ELSE IF i \in idx THEN <<ScanPaths[i]>> \o Pick(idx, i + 1)
    ELSE Pick(idx, i + 1)

JobLists ==
    {Pick(idx, 1) : idx \in {s \in SUBSET DOMAIN ScanPaths : Cardinality(s) <= MaxJobs}}

Workers == 1..MaxWorkers

\* ------------------------------------------------------------------- state
VARIABLES
    files,          \* run: the slice discoverFiles returned
    config,         \* AppConfig
    fs,             \* the destination paths on disk
    mpc,            \* position of the main goroutine (main / run / processFiles)
    started,        \* processFiles: workers started so far (loop variable i)
    enqueued,       \* processFiles: jobs sent so far
    jobs,           \* channel jobs: indices into files, in channel order
    jobsClosed,     \* close(jobs) happened
    results,        \* channel results
    resultsClosed,  \* close(results) happened
    wg,             \* sync.WaitGroup counter
    cpc,            \* position of the goroutine that runs wg.Wait(); close(results)
    allResults,     \* processFiles: the slice collected so far
    wpc,            \* position of each worker goroutine
    wloc,           \* locals of each worker (current job, response, result)
    barCount,       \* progress bar: sum of bar.Add
    barFinished,    \* bar.Finish was called
    summary,        \* what printSummary printed
    exitCode,       \* exit status of the process, -1 while it runs
    panicked,       \* a goroutine panicked (send on a closed channel)
    runNo,          \* which run of the program on this disk this is: 1 or 2
    first,          \* what the first run left, once the second has started
    pathArg,        \* getOutputPath called on its own: the argument
    pathRet,        \* getOutputPath called on its own: the value returned
    cfgFile,        \* config.json next to the executable
    flags,          \* the command line: the flags given
    clientConfig,   \* main: what LoadConfig returned
    scanTree,       \* discoverFiles called on its own: what -scan names on disk
    scanned,        \* discoverFiles called on its own: its recursive argument and what it returned
    printed,        \* printSummary called on its own: its verbose argument and the lines it printed
    \* history, not program state:
    fs0,            \* the disk before the run
    recvCount,      \* per job: how many times its queue entry was received
    requests,       \* per job: HTTP requests issued
    resp,           \* per job: the 200 body read in full, if any
    touched,        \* per job: the job opened its destination for writing
    wrote,          \* per job: os.WriteFile returned nil
    unreadable,     \* per job: os.ReadFile of the source failed
    expired,        \* per job: the client's timeout expired during the request
    left            \* per job: what its os.WriteFile left at the destination

vars == <<files, config, fs, mpc, started, enqueued, jobs, jobsClosed, results,
          resultsClosed, wg, cpc, allResults, wpc, wloc, barCount, barFinished,
          summary, exitCode, panicked, fs0, recvCount, requests, resp, touched,
          wrote, unreadable, expired, left, runNo, first, pathArg, pathRet,
          cfgFile, flags, clientConfig, scanTree, scanned, printed>>

sideVars == <<cfgFile, clientConfig, scanTree, scanned, printed>>
runVars == <<files, config, runNo, first, pathArg, pathRet, flags, sideVars>>
mainVars == <<mpc, started, enqueued, allResults, summary, exitCode>>
chanVars == <<jobs, jobsClosed, results, resultsClosed>>
ghostVars == <<fs0, recvCount, requests, resp, touched, wrote, unreadable, expired, left>>

N == Len(files)
JobIds == 1..N

NoLocals ==
    [job |-> 0, status |-> 0, sent |-> <<>>, data |-> <<>>, out |-> <<>>, err |-> NilErr]

NoResp == [got |-> FALSE, body |-> <<>>]

\* DefaultConfig: the built-in server URL.
DefaultServerURL == "http://localhost:8000"

\* A flag that was not given, and a flag given with value v.
NotGiven == [given |-> FALSE, value |-> 0]
NotGivenStr == [given |-> FALSE, value |-> ""]
Given(v) == [given |-> TRUE, value |-> v]

\* The command line of a run whose configuration is taken as already built.
NoFlags ==
    [workers |-> NotGiven, server |-> NotGivenStr, timeout |-> NotGiven,
     scan |-> "books", skipExisting |-> FALSE]

\* No config.json, nothing loaded, no scan on its own.
NoCfgFile == [state |-> "missing", server_url |-> "", timeout |-> 0, workers |-> 0]
NoClientConfig == [ServerURL |-> "", Timeout |-> 0, Workers |-> 0]
NoTree == [kind |-> "missing", name |-> <<>>, kids |-> <<>>]
NoScan == [done |-> FALSE, recursive |-> FALSE, err |-> FALSE, files |-> <<>>, warned |-> <<>>]
NoPrint == [done |-> FALSE, verbose |-> FALSE, lines |-> <<>>]

\* The configuration stage, the scanner on its own and the summary on its own
\* are not running.
SideIdle ==
    /\ cfgFile = NoCfgFile
    /\ clientConfig = NoClientConfig
    /\ scanTree = NoTree
    /\ scanned = NoScan
    /\ printed = NoPrint

\* No run has left anything yet.
NoFirst == [fs |-> <<>>, resp |-> <<>>, successful |-> 0]

\* No goroutine of the pool exists, the channels and the history are empty.
PoolIdle ==
    /\ started = 0
    /\ enqueued = 0
    /\ jobs = <<>>
    /\ jobsClosed = FALSE
    /\ results = <<>>
    /\ resultsClosed = FALSE
    /\ wg = 0
    /\ cpc = "none"
    /\ allResults = <<>>
    /\ wpc = [w \in Workers |-> "none"]
    /\ wloc = [w \in Workers |-> NoLocals]
    /\ barCount = 0
    /\ barFinished = FALSE
    /\ summary = [printed |-> FALSE, total |-> 0, successful |-> 0, failed |-> 0]
    /\ exitCode = -1
    /\ panicked = FALSE
    /\ recvCount = [i \in JobIds |-> 0]
    /\ requests = [i \in JobIds |-> 0]
    /\ resp = [i \in JobIds |-> NoResp]
    /\ touched = [i \in JobIds |-> FALSE]
    /\ wrote = [i \in JobIds |-> FALSE]
    /\ unreadable = [i \in JobIds |-> FALSE]
    /\ expired = [i \in JobIds |-> FALSE]
    /\ left = [i \in JobIds |-> NoFile]

\* The goroutines, channels and history at the start of run.
PoolStart ==
    /\ mpc = "scan"
    /\ PoolIdle

\* The program starts on a disk where destinations of its files may exist.
Init ==
    /\ files \in JobLists
    /\ config \in [Workers : Workers, Timeout : {MinTimeout},
                  ServerURL : {DefaultServerURL}, ScanPath : {"books"}]
    /\ fs \in [DestPaths -> {NoFile, File(OldData)}]
    /\ \A p \in DestPaths :
          fs[p].exists => \E i \in DOMAIN files : getOutputPath(files[i]) = p
    /\ fs0 = fs
    /\ PoolStart
    /\ runNo = 1
    /\ first = NoFirst
    /\ pathArg = <<>>
    /\ pathRet = <<>>
    /\ flags = NoFlags
    /\ SideIdle

\* ------------------------------------------------------- main.go: run, main
\* run: discoverFiles fails, run returns the error and main exits with 1
ScanFail ==
    /\ mpc = "scan"
    /\ mpc' = "exited"
    /\ exitCode' = 1
    /\ UNCHANGED <<runVars, fs, started, enqueued, chanVars, wg, cpc, allResults,
                   wpc, wloc, barCount, barFinished, summary, panicked, ghostVars>>

\* run, mutated: the check for an empty list is missing, processFiles is called
ScanEmpty_RunsPool ==
    /\ mpc = "scan"
    /\ Len(files) = 0
    /\ mpc' = "spawn"
    /\ exitCode' = exitCode
    /\ UNCHANGED <<runVars, fs, started, enqueued, chanVars, wg, cpc, allResults,
                   wpc, wloc, barCount, barFinished, summary, panicked, ghostVars>>

\* run: no file found, run returns nil without calling processFiles
ScanEmpty ==
    /\ mpc = "scan"
    /\ Len(files) = 0
    /\ mpc' = "exited"
    /\ exitCode' = 0
    /\ UNCHANGED <<runVars, fs, started, enqueued, chanVars, wg, cpc, allResults,
                   wpc, wloc, barCount, barFinished, summary, panicked, ghostVars>>

\* run: files found, processFiles is called
ScanFound ==
    /\ mpc = "scan"
    /\ Len(files) # 0
    /\ mpc' = "spawn"
    /\ UNCHANGED <<runVars, fs, started, enqueued, chanVars, wg, cpc, allResults,
                   wpc, wloc, barCount, barFinished, summary, exitCode, panicked,
                   ghostVars>>

\* ---------------------------------------------------- worker.go: processFiles
\* numWorkers, mutated: the configured count is not clamped to the number of files
numWorkers_Unclamped == config.Workers

numWorkers ==
    IF config.Workers > Len(files) THEN Len(files) ELSE config.Workers

\* StartWorker, mutated: the start loop runs one iteration too many (i <= numWorkers)
StartWorker_OneMore ==
    /\ mpc = "spawn"
    /\ started < numWorkers + 1
    /\ started < MaxWorkers
    /\ wg' = wg + 1
    /\ wpc' = [wpc EXCEPT ![started + 1] = "recv"]
    /\ started' = started + 1
    /\ mpc' = IF started + 1 < numWorkers + 1 /\ started + 1 < MaxWorkers
                 THEN "spawn" ELSE "enqueue"
    /\ UNCHANGED <<runVars, fs, enqueued, chanVars, cpc, allResults, wloc,
                   barCount, barFinished, summary, exitCode, panicked, ghostVars>>

\* wg.Add(1); go worker(i+1, ...)
StartWorker ==
    /\ mpc = "spawn"
    /\ started < numWorkers
    /\ wg' = wg + 1
    /\ wpc' = [wpc EXCEPT ![started + 1] = "recv"]
    /\ started' = started + 1
    /\ mpc' = IF started + 1 < numWorkers THEN "spawn" ELSE "enqueue"
    /\ UNCHANGED <<runVars, fs, enqueued, chanVars, cpc, allResults, wloc,
                   barCount, barFinished, summary, exitCode, panicked, ghostVars>>

\* jobs <- file, mutated: the queue is a stack, the newest entry is put in front
SendJob_InFront ==
    /\ mpc = "enqueue"
    /\ Len(jobs) < N
    /\ jobs' = <<enqueued + 1>> \o jobs
    /\ enqueued' = enqueued + 1
    /\ mpc' = IF enqueued + 1 < N THEN "enqueue" ELSE "close"
    /\ UNCHANGED <<runVars, fs, started, jobsClosed, results, resultsClosed, wg,
                   cpc, allResults, wpc, wloc, barCount, barFinished, summary, exitCode,
                   panicked, ghostVars>>

\* jobs <- file, for each file in order (the channel holds len(files) entries)
SendJob ==
    /\ mpc = "enqueue"
    /\ Len(jobs) < N
    /\ jobs' = Append(jobs, enqueued + 1)
    /\ enqueued' = enqueued + 1
    /\ mpc' = IF enqueued + 1 < N THEN "enqueue" ELSE "close"
    /\ UNCHANGED <<runVars, fs, started, jobsClosed, results, resultsClosed, wg,
                   cpc, allResults, wpc, wloc, barCount, barFinished, summary, exitCode,
                   panicked, ghostVars>>

\* close(jobs), mutated: the producer goes on without closing the queue
CloseJobs_NoClose ==
    /\ mpc = "close"
    /\ mpc' = "go"
    /\ UNCHANGED <<runVars, fs, started, enqueued, chanVars, wg, cpc, allResults,
                   wpc, wloc, barCount, barFinished, summary, exitCode, panicked,
                   ghostVars>>

\* close(jobs)
CloseJobs ==
    /\ mpc = "close"
    /\ jobsClosed' = TRUE
    /\ mpc' = "go"
    /\ UNCHANGED <<runVars, fs, started, enqueued, jobs, results, resultsClosed,
                   wg, cpc, allResults, wpc, wloc, barCount, barFinished, summary,
                   exitCode, panicked, ghostVars>>

\* go func() { wg.Wait(); close(results) }()
GoWaiter ==
    /\ mpc = "go"
    /\ cpc' = "wait"
    /\ mpc' = "collect"
    /\ UNCHANGED <<runVars, fs, started, enqueued, chanVars, wg, allResults, wpc,
                   wloc, barCount, barFinished, summary, exitCode, panicked, ghostVars>>

\* wg.Wait, mutated: it returns without waiting for the counter to reach zero
WaiterWait_NoWait ==
    /\ cpc = "wait"
    /\ cpc' = "close"
    /\ UNCHANGED <<runVars, fs, mainVars, chanVars, wg, wpc, wloc, barCount,
                   barFinished, panicked, ghostVars>>

\* wg.Wait() returns once every worker has called wg.Done
WaiterWait ==
    /\ cpc = "wait"
    /\ wg = 0
    /\ cpc' = "close"
    /\ UNCHANGED <<runVars, fs, mainVars, chanVars, wg, wpc, wloc, barCount,
                   barFinished, panicked, ghostVars>>

\* close(results)
WaiterClose ==
    /\ cpc = "close"
    /\ resultsClosed' = TRUE
    /\ cpc' = "done"
    /\ UNCHANGED <<runVars, fs, mainVars, jobs, jobsClosed, results, wg, wpc,
                   wloc, barCount, barFinished, panicked, ghostVars>>

\* for result := range results: one iteration
Collect ==
    /\ mpc = "collect"
    /\ results # <<>>
    /\ allResults' = Append(allResults, Head(results))
    /\ results' = Tail(results)
    /\ UNCHANGED <<runVars, fs, mpc, started, enqueued, jobs, jobsClosed,
                   resultsClosed, wg, cpc, wpc, wloc, barCount, barFinished, summary,
                   exitCode, panicked, ghostVars>>

\* for result := range results: the channel is closed and drained, the loop ends
CollectEnd ==
    /\ mpc = "collect"
    /\ results = <<>>
    /\ resultsClosed
    /\ mpc' = "finish"
    /\ UNCHANGED <<runVars, fs, started, enqueued, chanVars, wg, cpc, allResults,
                   wpc, wloc, barCount, barFinished, summary, exitCode, panicked,
                   ghostVars>>

\* bar.Finish(); return allResults, nil
BarFinish ==
    /\ mpc = "finish"
    /\ barFinished' = TRUE
    /\ mpc' = "summary"
    /\ UNCHANGED <<runVars, fs, started, enqueued, chanVars, wg, cpc, allResults,
                   wpc, wloc, barCount, summary, exitCode, panicked, ghostVars>>

\* -------------------------------------------------- main.go: printSummary
\* The counting loop of printSummary, mutated: the loop starts at the second
\* result (range results[1:])
RECURSIVE Tally_SkipFirst(_, _, _)
Tally_SkipFirst(rs, successful, failed) ==
    IF Len(rs) <= 1 THEN [successful |-> successful, failed |-> failed]
    ELSE IF rs[2].Error = NilErr
           THEN Tally_SkipFirst(Tail(rs), successful + 1, failed)
    ELSE Tally_SkipFirst(Tail(rs), successful, failed + 1)

\* The counting loop of printSummary over the results in slice order.
RECURSIVE Tally(_, _, _)
Tally(rs, successful, failed) ==
    IF rs = <<>> THEN [successful |-> successful, failed |-> failed]
    ELSE IF Head(rs).Error = NilErr THEN Tally(Tail(rs), successful + 1, failed)
    ELSE Tally(Tail(rs), successful, failed + 1)

\* printSummary(results, config.Verbose): total, successful and failed are printed
PrintSummary ==
    /\ mpc = "summary"
    /\ LET t == Tally(allResults, 0, 0)
       IN summary' = [printed |-> TRUE, total |-> Len(allResults),
                      successful |-> t.successful, failed |-> t.failed]
    /\ mpc' = "return"
    /\ UNCHANGED <<runVars, fs, started, enqueued, chanVars, wg, cpc, allResults,
                   wpc, wloc, barCount, barFinished, exitCode, panicked, ghostVars>>

\* The status main ends with once run has returned nil: main falls off its end,
\* whatever the results were.
ExitStatus(rs) == 0

\* run returns nil and main returns
Exit ==
    /\ mpc = "return"
    /\ exitCode' = ExitStatus(allResults)
    /\ mpc' = "exited"
    /\ UNCHANGED <<runVars, fs, started, enqueued, chanVars, wg, cpc, allResults,
                   wpc, wloc, barCount, barFinished, summary, panicked, ghostVars>>

\* ---------------------------------------------------- worker.go: worker
\* for filePath := range jobs, mutated: the entry is read but left in the channel
WorkerRecv_Peek(w) ==
    /\ wpc[w] = "recv"
    /\ jobs # <<>>
    /\ wloc' = [wloc EXCEPT ![w].job = Head(jobs)]
    /\ wpc' = [wpc EXCEPT ![w] = "read"]
    /\ recvCount' = [recvCount EXCEPT ![Head(jobs)] = @ + 1]
    /\ jobs' = IF recvCount[Head(jobs)] = 0 THEN jobs ELSE Tail(jobs)
    /\ UNCHANGED <<runVars, fs, mainVars, jobsClosed, results, resultsClosed, wg,
                   cpc, barCount, barFinished, panicked, fs0, requests, resp, touched,
                   wrote, unreadable, expired, left>>

\* for filePath := range jobs, mutated: the jobs are partitioned statically,
\* worker w takes only the entries whose position falls to it in turn
WorkerRecv_OwnShare(w) ==
    /\ wpc[w] = "recv"
    /\ jobs # <<>>
    /\ (Head(jobs) - 1) % started = w - 1
    /\ wloc' = [wloc EXCEPT ![w].job = Head(jobs)]
    /\ jobs' = Tail(jobs)
    /\ wpc' = [wpc EXCEPT ![w] = "read"]
    /\ recvCount' = [recvCount EXCEPT ![Head(jobs)] = @ + 1]
    /\ UNCHANGED <<runVars, fs, mainVars, jobsClosed, results, resultsClosed, wg,
                   cpc, barCount, barFinished, panicked, fs0, requests, resp, touched,
                   wrote, unreadable, expired, left>>

\* for filePath := range jobs: the next entry is received
WorkerRecv(w) ==
    /\ wpc[w] = "recv"
    /\ jobs # <<>>
    /\ wloc' = [wloc EXCEPT ![w].job = Head(jobs)]
    /\ jobs' = Tail(jobs)
    /\ wpc' = [wpc EXCEPT ![w] = "read"]
    /\ recvCount' = [recvCount EXCEPT ![Head(jobs)] = @ + 1]
    /\ UNCHANGED <<runVars, fs, mainVars, jobsClosed, results, resultsClosed, wg,
                   cpc, barCount, barFinished, panicked, fs0, requests, resp, touched,
                   wrote, unreadable, expired, left>>

\* The end of the worker's loop, mutated: the worker polls the queue and leaves
\* as soon as it finds it empty, closed or not
WorkerExit_OnEmpty(w) ==
    /\ wpc[w] = "recv"
    /\ jobs = <<>>
    /\ wpc' = [wpc EXCEPT ![w] = "done"]
    /\ wg' = wg - 1
    /\ UNCHANGED <<runVars, fs, mainVars, chanVars, cpc, wloc, barCount,
                   barFinished, panicked, ghostVars>>

\* for filePath := range jobs: closed and empty, the loop ends; deferred wg.Done()
WorkerExit(w) ==
    /\ wpc[w] = "recv"
    /\ jobs = <<>>
    /\ jobsClosed
    /\ wpc' = [wpc EXCEPT ![w] = "done"]
    /\ wg' = wg - 1
    /\ UNCHANGED <<runVars, fs, mainVars, chanVars, cpc, wloc, barCount,
                   barFinished, panicked, ghostVars>>

\* What the worker does with the result of processSingleFile, mutated: a failed
\* job is logged and skipped, no result is sent for it
AfterJob_DropOnError(w) ==
    /\ Len(results) < N
    /\ results' = IF wloc[w].err = NilErr
                  THEN Append(results, [FilePath |-> files[wloc[w].job],
                                        OutputPath |-> wloc[w].out,
                                        Error |-> wloc[w].err])
                  ELSE results
    /\ panicked' = (panicked \/ resultsClosed)
    /\ wpc' = [wpc EXCEPT ![w] = "add"]
    /\ wg' = wg

\* What the worker does with the result of processSingleFile, mutated: a worker
\* that got an error drops the result and stops
AfterJob_StopOnError(w) ==
    IF wloc[w].err = NilErr
    THEN /\ Len(results) < N
         /\ results' = Append(results, [FilePath |-> files[wloc[w].job],
                                        OutputPath |-> wloc[w].out,
                                        Error |-> wloc[w].err])
         /\ panicked' = resultsClosed
         /\ wpc' = [wpc EXCEPT ![w] = "add"]
         /\ wg' = wg
    ELSE /\ results' = results
         /\ panicked' = panicked
         /\ wpc' = [wpc EXCEPT ![w] = "done"]
         /\ wg' = wg - 1

\* results <- result (the channel holds len(files) entries; a send on a closed
\* channel panics)
AfterJob(w) ==
    /\ Len(results) < N
    /\ results' = Append(results, [FilePath |-> files[wloc[w].job],
                                   OutputPath |-> wloc[w].out,
                                   Error |-> wloc[w].err])
    /\ panicked' = (panicked \/ resultsClosed)
    /\ wpc' = [wpc EXCEPT ![w] = "add"]
    /\ wg' = wg

\* results <- result, mutated: the worker appends its result to the collector's
\* slice itself instead of sending it
WorkerSend_AppendShared(w) ==
    /\ wpc[w] = "send"
    /\ allResults' = Append(allResults, [FilePath |-> files[wloc[w].job],
                                         OutputPath |-> wloc[w].out,
                                         Error |-> wloc[w].err])
    /\ wpc' = [wpc EXCEPT ![w] = "add"]
    /\ wloc' = [wloc EXCEPT ![w] = NoLocals]
    /\ UNCHANGED <<runVars, fs, mpc, started, enqueued, summary, exitCode,
                   chanVars, wg, cpc, barCount, barFinished, panicked, ghostVars>>

WorkerSend(w) ==
    /\ wpc[w] = "send"
    /\ AfterJob(w)
    /\ wloc' = [wloc EXCEPT ![w] = NoLocals]
    /\ UNCHANGED <<runVars, fs, mainVars, jobs, jobsClosed, resultsClosed, cpc,
                   barCount, barFinished, ghostVars>>

\* bar.Add(1), mutated: the bar is advanced by 2
WorkerBarAdd_ByTwo(w) ==
    /\ wpc[w] = "add"
    /\ barCount' = barCount + 2
    /\ wpc' = [wpc EXCEPT ![w] = "recv"]
    /\ UNCHANGED <<runVars, fs, mainVars, chanVars, wg, cpc, wloc, barFinished,
                   panicked, ghostVars>>

\* bar.Add(1)
WorkerBarAdd(w) ==
    /\ wpc[w] = "add"
    /\ barCount' = barCount + 1
    /\ wpc' = [wpc EXCEPT ![w] = "recv"]
    /\ UNCHANGED <<runVars, fs, mainVars, chanVars, wg, cpc, wloc, barFinished,
                   panicked, ghostVars>>

\* ---------------------------------------------------- worker.go: processSingleFile
\* processSingleFile's error return, mutated: the path computed so far is
\* returned together with the error
Fail_KeepPath(w, err) ==
    /\ wloc' = [wloc EXCEPT ![w].err = err]
    /\ wpc' = [wpc EXCEPT ![w] = "send"]

\* processSingleFile returns ("", err): the worker's result gets the error
Fail(w, err) ==
    /\ wloc' = [wloc EXCEPT ![w].err = err, ![w].out = <<>>]
    /\ wpc' = [wpc EXCEPT ![w] = "send"]

\* http.Client{Timeout: config.Timeout}, mutated: the client is built without
\* a timeout (zero means no timeout)
ClientTimeout_Unset(cfg) == 0

\* client := &http.Client{Timeout: config.Timeout}, in seconds
ClientTimeout(cfg) == cfg.Timeout

\* os.ReadFile, mutated: the destination is created as soon as the source is read
PSFReadFile_CreateFirst(w) ==
    /\ wpc[w] = "read"
    /\ \/ /\ Fail(w, Err("failed to read file", "enoent"))
          /\ unreadable' = [unreadable EXCEPT ![wloc[w].job] = TRUE]
          /\ fs' = fs
       \/ /\ wpc' = [wpc EXCEPT ![w] = "post"]
          /\ wloc' = wloc
          /\ unreadable' = unreadable
          /\ fs' = [fs EXCEPT ![getOutputPath(files[wloc[w].job])] = File(<<>>)]
    /\ UNCHANGED <<runVars, mainVars, chanVars, wg, cpc, barCount,
                   barFinished, panicked, fs0, recvCount, requests, resp, touched,
                   wrote, expired, left>>

\* os.ReadFile, mutated: the error of the read is dropped (content, _ :=) and
\* the request is sent with what was read
PSFReadFile_IgnoreError(w) ==
    /\ wpc[w] = "read"
    /\ wpc' = [wpc EXCEPT ![w] = "post"]
    /\ wloc' = wloc
    /\ \E failed \in BOOLEAN :
          unreadable' = [unreadable EXCEPT ![wloc[w].job] = failed]
    /\ UNCHANGED <<runVars, fs, mainVars, chanVars, wg, cpc, barCount,
                   barFinished, panicked, fs0, recvCount, requests, resp, touched,
                   wrote, expired, left>>

\* os.ReadFile(filePath): the source is read, or the read fails
PSFReadFile(w) ==
    /\ wpc[w] = "read"
    /\ \/ /\ Fail(w, Err("failed to read file", "enoent"))
          /\ unreadable' = [unreadable EXCEPT ![wloc[w].job] = TRUE]
       \/ /\ wpc' = [wpc EXCEPT ![w] = "post"]
          /\ wloc' = wloc
          /\ unreadable' = unreadable
    /\ UNCHANGED <<runVars, fs, mainVars, chanVars, wg, cpc, barCount,
                   barFinished, panicked, fs0, recvCount, requests, resp, touched,
                   wrote, expired, left>>

\* client.Post(url, ...): one request; the endpoint answers with a status, or
\* the request fails with a network error (connection refused)
PSFPost(w) ==
    /\ wpc[w] = "post"
    /\ requests' = [requests EXCEPT ![wloc[w].job] = @ + 1]
    /\ \/ Fail(w, Err("failed to send request", "refused"))
       \/ \E status \in Statuses :
              /\ wloc' = [wloc EXCEPT ![w].status = status]
              /\ wpc' = [wpc EXCEPT ![w] = "body"]
    /\ UNCHANGED <<runVars, fs, mainVars, chanVars, wg, cpc, barCount,
                   barFinished, panicked, fs0, recvCount, resp, touched, wrote,
                   unreadable, expired, left>>

\* client.Post, mutated: a request that timed out is sent once more
PSFPostTimeout_Retry(w) ==
    /\ wpc[w] = "post"
    /\ ClientTimeout(config) > 0
    /\ requests' = [requests EXCEPT ![wloc[w].job] = @ + 1]
    /\ expired' = [expired EXCEPT ![wloc[w].job] = TRUE]
    /\ IF requests[wloc[w].job] = 0
         THEN UNCHANGED <<wloc, wpc>>
         ELSE Fail(w, Err("failed to send request", "timeout"))
    /\ UNCHANGED <<runVars, fs, mainVars, chanVars, wg, cpc, barCount,
                   barFinished, panicked, fs0, recvCount, resp, touched, wrote,
                   unreadable, left>>

\* client.Post(url, ...): no response headers arrive before the client's
\* timeout expires, the call returns the timeout error
PSFPostTimeout(w) ==
    /\ wpc[w] = "post"
    /\ ClientTimeout(config) > 0
    /\ requests' = [requests EXCEPT ![wloc[w].job] = @ + 1]
    /\ expired' = [expired EXCEPT ![wloc[w].job] = TRUE]
    /\ Fail(w, Err("failed to send request", "timeout"))
    /\ UNCHANGED <<runVars, fs, mainVars, chanVars, wg, cpc, barCount,
                   barFinished, panicked, fs0, recvCount, resp, touched, wrote,
                   unreadable, left>>

\* io.ReadAll(resp.Body) of a response that is not 200: the endpoint sends its
\* body and the read returns it, or the connection breaks before its end; the
\* error of the read is dropped, the message carries the status and the bytes read
PSFReadErrorBody(w) ==
    /\ wpc[w] = "body"
    /\ wloc[w].status # 200
    /\ \E sent \in Bodies : \E n \in {0, Len(sent)} :
          /\ wloc' = [wloc EXCEPT ![w].sent = sent,
                                  ![w].err = StatusErr(wloc[w].status, SubSeq(sent, 1, n)),
                                  ![w].out = <<>>]
          /\ wpc' = [wpc EXCEPT ![w] = "send"]
    /\ UNCHANGED <<runVars, fs, mainVars, chanVars, wg, cpc, barCount,
                   barFinished, panicked, ghostVars>>

\* io.ReadAll(resp.Body) of a response that is not 200: the client's timeout
\* expires before the end of the body; the error of the read is dropped as well
PSFReadErrorBodyTimeout(w) ==
    /\ wpc[w] = "body"
    /\ wloc[w].status # 200
    /\ ClientTimeout(config) > 0
    /\ expired' = [expired EXCEPT ![wloc[w].job] = TRUE]
    /\ \E sent \in Bodies \ {<<>>} : \E n \in 0..(Len(sent) - 1) :
          /\ wloc' = [wloc EXCEPT ![w].sent = sent,
                                  ![w].err = StatusErr(wloc[w].status, SubSeq(sent, 1, n)),
                                  ![w].out = <<>>]
          /\ wpc' = [wpc EXCEPT ![w] = "send"]
    /\ UNCHANGED <<runVars, fs, mainVars, chanVars, wg, cpc, barCount,
                   barFinished, panicked, fs0, recvCount, requests, resp, touched,
                   wrote, unreadable, left>>

\* io.ReadAll(resp.Body) of a 200 response: the whole body, or an error (the
\* connection broke)
PSFReadBody(w) ==
    /\ wpc[w] = "body"
    /\ wloc[w].status = 200
    /\ \/ /\ Fail(w, Err("failed to read response", "reset"))
          /\ resp' = resp
       \/ \E sent \in Bodies :
              /\ wloc' = [wloc EXCEPT ![w].sent = sent, ![w].data = sent]
              /\ wpc' = [wpc EXCEPT ![w] = "open"]
              /\ resp' = [resp EXCEPT ![wloc[w].job] = [got |-> TRUE, body |-> sent]]
    /\ UNCHANGED <<runVars, fs, mainVars, chanVars, wg, cpc, barCount,
                   barFinished, panicked, fs0, recvCount, requests, touched, wrote,
                   unreadable, expired, left>>

\* io.ReadAll(resp.Body) of a 200 response: the client's timeout expires before
\* the end of the body
PSFReadBodyTimeout(w) ==
    /\ wpc[w] = "body"
    /\ wloc[w].status = 200
    /\ ClientTimeout(config) > 0
    /\ expired' = [expired EXCEPT ![wloc[w].job] = TRUE]
    /\ Fail(w, Err("failed to read response", "timeout"))
    /\ UNCHANGED <<runVars, fs, mainVars, chanVars, wg, cpc, barCount,
                   barFinished, panicked, fs0, recvCount, requests, resp, touched,
                   wrote, unreadable, left>>

\* os.WriteFile, first half: OpenFile(name, O_WRONLY|O_CREATE|O_TRUNC, perm)
\* fails and leaves the disk alone, or creates the file or empties the old one
PSFOpen(w) ==
    /\ wpc[w] = "open"
    /\ LET outputPath == getOutputPath(files[wloc[w].job])
       IN \/ /\ Fail(w, Err("failed to write MP3 file", "eacces"))
             /\ UNCHANGED <<fs, touched, left>>
          \/ /\ fs' = [fs EXCEPT ![outputPath] = File(<<>>)]
             /\ touched' = [touched EXCEPT ![wloc[w].job] = TRUE]
             /\ left' = [left EXCEPT ![wloc[w].job] = File(<<>>)]
             /\ wloc' = [wloc EXCEPT ![w].out = outputPath]
             /\ wpc' = [wpc EXCEPT ![w] = "write"]
    /\ UNCHANGED <<runVars, mainVars, chanVars, wg, cpc, barCount, barFinished,
                   panicked, fs0, recvCount, requests, resp, wrote, unreadable,
                   expired>>

\* os.WriteFile, second half: f.Write(data); f.Close(). Either all bytes are
\* written and processSingleFile returns (outputPath, nil), or the write stops
\* after n bytes (n = len(data): Close failed) and it returns ("", err)
PSFWrite(w) ==
    /\ wpc[w] = "write"
    /\ LET outputPath == wloc[w].out
           data == wloc[w].data
       IN \/ /\ fs' = [fs EXCEPT ![outputPath] = File(WriteAt0(@.data, data))]
             /\ left' = [left EXCEPT ![wloc[w].job] = File(data)]
             /\ wloc' = [wloc EXCEPT ![w].err = NilErr]
             /\ wpc' = [wpc EXCEPT ![w] = "send"]
             /\ wrote' = [wrote EXCEPT ![wloc[w].job] = TRUE]
          \/ \E n \in 0..Len(data) :
                /\ fs' = [fs EXCEPT ![outputPath] =
                                 File(WriteAt0(@.data, SubSeq(data, 1, n)))]
                /\ left' = [left EXCEPT ![wloc[w].job] = File(SubSeq(data, 1, n))]
                /\ Fail(w, Err("failed to write MP3 file", "enospc"))
                /\ wrote' = wrote
    /\ UNCHANGED <<runVars, mainVars, chanVars, wg, cpc, barCount, barFinished,
                   panicked, fs0, recvCount, requests, resp, touched, unreadable,
                   expired>>

\* ------------------------------------------------------------ specification
\* The steps of the goroutine of main: run, processFiles, printSummary.
MainStep ==
    \/ ScanFail \/ ScanEmpty \/ ScanFound
    \/ StartWorker \/ SendJob \/ CloseJobs \/ GoWaiter
    \/ Collect \/ CollectEnd \/ BarFinish
    \/ PrintSummary \/ Exit

\* The steps of the goroutine that closes results.
WaiterStep == WaiterWait \/ WaiterClose

\* The steps of worker w that need nothing from the endpoint: local work and
\* the expiry of the client's timeout.
WorkerLocalStep(w) ==
    \/ WorkerRecv(w) \/ WorkerExit(w)
    \/ PSFReadFile(w) \/ PSFPostTimeout(w)
    \/ PSFReadErrorBodyTimeout(w) \/ PSFReadBodyTimeout(w)
    \/ PSFOpen(w) \/ PSFWrite(w)
    \/ WorkerSend(w) \/ WorkerBarAdd(w)

\* The steps of worker w in which the endpoint (or the network) acts.
EndpointStep(w) == PSFPost(w) \/ PSFReadErrorBody(w) \/ PSFReadBody(w)

Next ==
    /\ ~panicked
    /\ \/ MainStep
       \/ WaiterStep
       \/ \E w \in Workers : WorkerLocalStep(w) \/ EndpointStep(w)

Spec == Init /\ [][Next]_vars

\* The run under fair scheduling: every goroutine that can take a step
\* eventually takes one. The endpoint is under no obligation to answer.
LiveSpec ==
    /\ Spec
    /\ WF_vars(~panicked /\ MainStep)
    /\ WF_vars(~panicked /\ WaiterStep)
    /\ \A w \in Workers : WF_vars(~panicked /\ WorkerLocalStep(w))

\* ------------------------------------------- main.go: getOutputPath on its own
\* Longest generated argument of getOutputPath.
MaxPathLen == 4

\* The characters the generated arguments are made of.
PathChars == {"a", ".", "/"}

\* Every sequence of at most n path characters.
RECURSIVE PathsUpTo(_)
PathsUpTo(n) ==
    IF n = 0 THEN { <<>> }
    ELSE LET shorter == PathsUpTo(n - 1)
         IN shorter \cup { Append(p, c) : p \in shorter, c \in PathChars }

\* The arguments getOutputPath is called with: file names of the user guide
\* and every short path.
PathArgs ==
    { <<"c", "h", "a", "p", "t", "e", "r", "1", ".", "t", "x", "t">>,
      <<"b", "o", "o", "k", ".", "c", "h", "a", "p", "t", "e", "r", "1", ".", "t", "x", "t">>,
      <<"f", "i", "l", "e", ".", "t", "x", "t", ".", "b", "a", "c", "k", "u", "p">>,
      <<"r", "e", "a", "d", "m", "e">>,
      <<"d", "i", "r", ".", "v", "2", "/", "r", "e", "a", "d", "m", "e">>,
      <<"d", "i", "r", ".", "v", "2", "/", "n", "o", "t", "e", "s", ".", "t", "x", "t">> } \cup PathsUpTo(MaxPathLen)

\* No pool is running, getOutputPath is about to be called with some path.
PathInit ==
    /\ files = <<>>
    /\ config = [Workers |-> 1, Timeout |-> MinTimeout,
                 ServerURL |-> DefaultServerURL, ScanPath |-> "books"]
    /\ fs = [p \in DestPaths |-> NoFile]
    /\ fs0 = fs
    /\ PoolStart
    /\ runNo = 1
    /\ first = NoFirst
    /\ pathArg \in PathArgs
    /\ pathRet = <<>>
    /\ flags = NoFlags
    /\ SideIdle

\* outputPath := getOutputPath(filePath)
CallGetOutputPath ==
    /\ pathRet = <<>>
    /\ pathRet' = getOutputPath(pathArg)
    /\ UNCHANGED <<files, config, runNo, first, pathArg, flags, sideVars, fs,
                   mainVars, chanVars, wg,
                   cpc, wpc, wloc, barCount, barFinished, panicked, ghostVars>>

PathSpec == PathInit /\ [][CallGetOutputPath]_vars

\* ------------------------------------------------ main.go: a second run
\* The program has ended with every file converted and is started again on
\* the disk the first run left: the process starts over, the .mp3 files stay.
StartAgain ==
    /\ runNo = 1
    /\ mpc = "exited"
    /\ summary.printed
    /\ summary.failed = 0
    /\ runNo' = 2
    /\ first' = [fs |-> fs, resp |-> resp, successful |-> summary.successful]
    /\ UNCHANGED <<files, config, pathArg, pathRet, sideVars, fs>>
    /\ fs0' = fs
    /\ started' = 0
    /\ enqueued' = 0
    /\ jobs' = <<>>
    /\ jobsClosed' = FALSE
    /\ results' = <<>>
    /\ resultsClosed' = FALSE
    /\ wg' = 0
    /\ cpc' = "none"
    /\ allResults' = <<>>
    /\ wpc' = [w \in Workers |-> "none"]
    /\ wloc' = [w \in Workers |-> NoLocals]
    /\ barCount' = 0
    /\ barFinished' = FALSE
    /\ summary' = [printed |-> FALSE, total |-> 0, successful |-> 0, failed |-> 0]
    /\ panicked' = FALSE
    /\ recvCount' = [i \in JobIds |-> 0]
    /\ requests' = [i \in JobIds |-> 0]
    /\ resp' = [i \in JobIds |-> NoResp]
    /\ touched' = [i \in JobIds |-> FALSE]
    /\ wrote' = [i \in JobIds |-> FALSE]
    /\ unreadable' = [i \in JobIds |-> FALSE]
    /\ expired' = [i \in JobIds |-> FALSE]
    /\ left' = [i \in JobIds |-> NoFile]

\* The second run with the same arguments: main reaches run again.
Rerun ==
    /\ StartAgain
    /\ flags' = flags
    /\ mpc' = "scan"
    /\ exitCode' = -1

\* The second run with -skip-existing added: main defines no such flag, so
\* flag.Parse() prints the usage and the process exits with status 2.
RerunSkipExisting ==
    /\ StartAgain
    /\ flags' = [flags EXCEPT !.skipExisting = TRUE]
    /\ mpc' = "exited"
    /\ exitCode' = 2

NextRerun == Next \/ Rerun \/ RerunSkipExisting

RerunSpec == Init /\ [][NextRerun]_vars

\* ------------------------------------------------ config.go, main.go: main
\* DefaultConfig: timeout in seconds and workers.
DefaultTimeout == 600
DefaultWorkers == 1

DefaultConfig ==
    [ServerURL |-> DefaultServerURL, Timeout |-> DefaultTimeout, Workers |-> DefaultWorkers]

\* validateConfig, mutated: the check of the server URL is missing
validateConfig_AcceptsEmptyURL(c) ==
    [err |-> FALSE,
     config |-> [c EXCEPT !.Timeout = IF @ <= 0 THEN DefaultTimeout ELSE @,
                          !.Workers = IF @ < 1 THEN DefaultWorkers ELSE @]]

\* validateConfig(&config): an empty server URL is an error; a timeout <= 0 and
\* a workers value < 1 are replaced in place by 600 and 1
validateConfig(c) ==
    IF c.ServerURL = "" THEN [err |-> TRUE, config |-> c]
    ELSE [err |-> FALSE,
          config |-> [c EXCEPT !.Timeout = IF @ <= 0 THEN DefaultTimeout ELSE @,
                               !.Workers = IF @ < 1 THEN DefaultWorkers ELSE @]]

\* loadConfigFile(path): os.ReadFile and json.Unmarshal; a key that is absent
\* from the JSON leaves the zero value
loadConfigFile(file) ==
    IF file.state \in {"unreadable", "unparsable"}
      THEN [err |-> TRUE, config |-> NoClientConfig]
      ELSE [err |-> FALSE,
            config |-> [ServerURL |-> file.server_url, Timeout |-> file.timeout,
                        Workers |-> file.workers]]

\* LoadConfig(): the defaults when the executable's path is unknown, when
\* config.json is missing, cannot be loaded or does not validate
LoadConfig(file) ==
    IF file.state \in {"noexe", "missing"} THEN DefaultConfig
    ELSE LET loaded == loadConfigFile(file)
             checked == validateConfig(loaded.config)
         IN IF loaded.err THEN DefaultConfig
            ELSE IF checked.err THEN DefaultConfig
            ELSE checked.config

\* What config.json can be: absent in some way, or a JSON object with its
\* three keys (0 and "" stand for an absent key as well).
CfgFiles ==
    { [state |-> st, server_url |-> "", timeout |-> 0, workers |-> 0] :
          st \in {"noexe", "missing", "unreadable", "unparsable"} }
    \cup { [state |-> "ok", server_url |-> u, timeout |-> t, workers |-> k] :
               u \in {"", "http://file"}, t \in {-1, 0, 30}, k \in {0, 2} }

\* The command lines: each of -workers, -server and -timeout absent or given,
\* -scan empty, naming nothing on disk or naming a directory, -skip-existing.
CommandLines ==
    [workers : {NotGiven, Given(0), Given(3)},
     server : {NotGivenStr, Given(""), Given("http://flag")},
     timeout : {NotGiven, Given(0), Given(5)},
     scan : {"", "gone", "books"},
     skipExisting : BOOLEAN]

\* os.Stat(config.ScanPath) finds something
ScanPathExists(path) == path = "books"

\* The zero AppConfig of `var config AppConfig`.
ZeroAppConfig == [Workers |-> 0, Timeout |-> 0, ServerURL |-> "", ScanPath |-> ""]

\* The variables of the pool that main leaves alone before run.
poolVars ==
    <<files, fs, started, enqueued, allResults, summary, chanVars, wg, cpc, wpc,
      wloc, barCount, barFinished, panicked, ghostVars>>

\* main is entered: some config.json, some command line, no pool yet.
ConfigInit ==
    /\ files = <<>>
    /\ config = ZeroAppConfig
    /\ fs = [p \in DestPaths |-> NoFile]
    /\ fs0 = fs
    /\ mpc = "load"
    /\ PoolIdle
    /\ runNo = 1
    /\ first = NoFirst
    /\ pathArg = <<>>
    /\ pathRet = <<>>
    /\ cfgFile \in CfgFiles
    /\ flags \in CommandLines
    /\ clientConfig = NoClientConfig
    /\ scanTree = NoTree
    /\ scanned = NoScan
    /\ printed = NoPrint

\* clientConfig := LoadConfig()
MainLoadConfig ==
    /\ mpc = "load"
    /\ clientConfig' = LoadConfig(cfgFile)
    /\ mpc' = "parse"
    /\ UNCHANGED <<config, exitCode, flags, cfgFile, scanTree, scanned, printed, runNo, first,
                   pathArg, pathRet, poolVars>>

\* flag.Parse() meets -skip-existing, a flag main does not define: the flag
\* package prints the usage and exits with status 2
MainParseUndefinedFlag ==
    /\ mpc = "parse"
    /\ flags.skipExisting
    /\ mpc' = "exited"
    /\ exitCode' = 2
    /\ UNCHANGED <<config, flags, sideVars, runNo, first, pathArg, pathRet, poolVars>>

\* main's flag handling, mutated: a value of config.json wins over the flag
MainParseFlags_FileWins ==
    /\ mpc = "parse"
    /\ ~flags.skipExisting
    /\ config' =
          [Workers |-> IF cfgFile.state = "ok" \/ ~flags.workers.given
                         THEN clientConfig.Workers ELSE flags.workers.value,
           ServerURL |-> IF cfgFile.state = "ok" \/ ~flags.server.given
                           THEN clientConfig.ServerURL ELSE flags.server.value,
           Timeout |-> IF cfgFile.state = "ok" \/ ~flags.timeout.given
                         THEN clientConfig.Timeout ELSE flags.timeout.value,
           ScanPath |-> flags.scan]
    /\ mpc' = "validate"
    /\ UNCHANGED <<exitCode, flags, sideVars, runNo, first, pathArg, pathRet, poolVars>>

\* flag.IntVar(&workersFlag, "workers", clientConfig.Workers, ...) and so on,
\* flag.Parse(), config.Workers = workersFlag, ...: each flag variable holds the
\* value given on the command line, or its default taken from clientConfig
MainParseFlags ==
    /\ mpc = "parse"
    /\ ~flags.skipExisting
    /\ config' =
          [Workers |-> IF flags.workers.given
                         THEN flags.workers.value ELSE clientConfig.Workers,
           ServerURL |-> IF flags.server.given
                           THEN flags.server.value ELSE clientConfig.ServerURL,
           Timeout |-> IF flags.timeout.given
                         THEN flags.timeout.value ELSE clientConfig.Timeout,
           ScanPath |-> flags.scan]
    /\ mpc' = "validate"
    /\ UNCHANGED <<exitCode, flags, sideVars, runNo, first, pathArg, pathRet, poolVars>>

\* main's checks before run: -scan given, the path exists, workers >= 1,
\* timeout >= 1 second
ArgsAccepted(cfg) ==
    /\ cfg.ScanPath # ""
    /\ ScanPathExists(cfg.ScanPath)
    /\ cfg.Workers >= 1
    /\ cfg.Timeout >= MinTimeout

\* main: a failed check prints the error and exits with 1, otherwise run(config)
MainValidate ==
    /\ mpc = "validate"
    /\ IF ArgsAccepted(config)
         THEN mpc' = "scan" /\ exitCode' = exitCode
         ELSE mpc' = "exited" /\ exitCode' = 1
    /\ UNCHANGED <<config, flags, sideVars, runNo, first, pathArg, pathRet, poolVars>>

ConfigNext ==
    \/ MainLoadConfig
    \/ MainParseUndefinedFlag
    \/ MainParseFlags
    \/ MainValidate

ConfigSpec == ConfigInit /\ [][ConfigNext]_vars

\* ------------------------------------------------------------------ claims
\* Every result sent so far: those collected, then those still in the channel.
Sent == allResults \o results

\* The job a result belongs to (the scanner returns each path once).
JobOf(r) == CHOOSE i \in JobIds : files[i] = r.FilePath

\* Number of entries of a sequence of results for path p.
CountOf(rs, p) == Cardinality({k \in DOMAIN rs : rs[k].FilePath = p})

\* processFiles has returned its slice.
PoolReturned == barFinished

Succeeded(r) == r.Error = NilErr

\* C1: when processFiles returns, its slice has exactly len(files) entries and
\* holds every input path exactly as often as the input does: no job dropped,
\* no job reported twice.
C1_OneResultPerJob ==
    PoolReturned =>
        /\ Len(allResults) = Len(files)
        /\ \A i \in DOMAIN ScanPaths :
              CountOf(allResults, ScanPaths[i]) = CountOf([k \in DOMAIN files |->
                                                      [FilePath |-> files[k]]], ScanPaths[i])

\* Two workers shared two jobs, one failed and one succeeded, and the pool returned.
C1_Witness ==
    /\ PoolReturned
    /\ Len(files) = 2
    /\ numWorkers = 2
    /\ \E k \in DOMAIN allResults : Succeeded(allResults[k])
    /\ \E k \in DOMAIN allResults : ~Succeeded(allResults[k])

\* C2: a queue entry is never received twice, no two workers hold the same job,
\* and once the pool has returned every job was received (and so handed to
\* processSingleFile) exactly once.
C2_DequeuedOnce ==
    /\ \A i \in JobIds : recvCount[i] <= 1
    /\ \A w1, w2 \in Workers :
          (w1 # w2 /\ wloc[w1].job # 0) => wloc[w1].job # wloc[w2].job
    /\ \A i \in JobIds : \A k \in DOMAIN jobs : jobs[k] = i => recvCount[i] = 0
    /\ PoolReturned => \A i \in JobIds : recvCount[i] = 1

\* Two workers are each inside processSingleFile at the same time.
C2_Witness ==
    /\ wloc[1].job # 0
    /\ wloc[2].job # 0
    /\ wpc[1] \in {"post", "body", "open", "write"}
    /\ wpc[2] \in {"post", "body", "open", "write"}

\* C3: results is closed only once every worker has terminated, no send ever
\* hits the closed channel, and processFiles leaves its collection loop only
\* after the close, with no worker running and nothing left in the channel.
C3_CloseAfterWorkers ==
    /\ ~panicked
    /\ cpc \in {"close", "done"} =>
          /\ started = numWorkers
          /\ \A w \in Workers : wpc[w] \in {"none", "done"}
    /\ resultsClosed => cpc = "done"
    /\ (mpc \in {"finish", "summary", "return"} \/ PoolReturned) =>
          /\ resultsClosed
          /\ results = <<>>
          /\ \A w \in Workers : wpc[w] \in {"none", "done"}

\* The channel was closed after two workers finished, while the collector still
\* had results to take from it.
C3_Witness ==
    /\ resultsClosed
    /\ mpc = "collect"
    /\ results # <<>>
    /\ wpc[1] = "done"
    /\ wpc[2] = "done"

\* C4: a job's failure shows only in that job's result. A worker stops only
\* when the queue is closed and empty (so not because a job failed), the pool
\* returns one result per job whose Error is nil exactly when that job's write
\* succeeded, and run goes on to the summary (processFiles returned a nil error).
C4_FailureStaysInJob ==
    /\ \A w \in Workers : wpc[w] = "done" => (jobsClosed /\ jobs = <<>>)
    /\ PoolReturned =>
          \A i \in JobIds :
              /\ CountOf(allResults, files[i]) = 1
              /\ \A k \in DOMAIN allResults :
                    allResults[k].FilePath = files[i] =>
                        (Succeeded(allResults[k]) <=> wrote[i])
    /\ (PoolReturned /\ mpc = "exited") => (summary.printed /\ exitCode # 1)

\* A single worker failed the first job, went on to the second and succeeded.
C4_Witness ==
    /\ PoolReturned
    /\ numWorkers = 1
    /\ Len(files) = 2
    /\ ~wrote[1]
    /\ wrote[2]

\* C5: once a run with jobs has ended, the exit status tells the outcomes
\* apart as the user guide's table does: 0 when every job succeeded, 1 when
\* some failed and some succeeded, 2 when every job failed.
C5_ExitStatusReflectsResults ==
    (mpc = "exited" /\ summary.printed) =>
        exitCode = (IF summary.failed = 0 THEN 0
                    ELSE IF summary.successful > 0 THEN 1
                    ELSE 2)

\* C6: after the run, for every failed result the destination either does not
\* exist or is the file that was there before the run, unchanged.
C6_FailedLeavesDestination ==
    PoolReturned =>
        \A k \in DOMAIN allResults :
            ~Succeeded(allResults[k]) =>
                LET dest == getOutputPath(allResults[k].FilePath)
                IN \/ ~fs[dest].exists
                   \/ fs[dest] = fs0[dest]

\* The errors processSingleFile returns before it reaches os.WriteFile.
EarlyKinds ==
    {"failed to read file", "failed to send request", "server returned status",
     "failed to read response"}

\* C7: the destination is opened only by a job that got a 200 response and read
\* its whole body; a job that returns one of the earlier errors never opened
\* it, and a destination that no such job opened is as it was before the run.
C7_WriteOnlyAfterFullBody ==
    /\ \A i \in JobIds : touched[i] => (resp[i].got /\ requests[i] = 1)
    /\ \A w \in Workers :
          (wpc[w] = "send" /\ wloc[w].err.kind \in EarlyKinds) =>
              ~touched[wloc[w].job]
    /\ \A p \in DestPaths :
          (\A i \in JobIds : getOutputPath(files[i]) = p => ~touched[i]) =>
              fs[p] = fs0[p]

\* A job is about to report a non-200 answer and the .mp3 of an earlier run is
\* still in place at its destination.
C7_Witness ==
    \E w \in Workers :
        /\ wpc[w] = "send"
        /\ wloc[w].err.kind = "server returned status"
        /\ fs0[getOutputPath(files[wloc[w].job])].exists
        /\ fs[getOutputPath(files[wloc[w].job])] = File(OldData)

\* C8: in every result sent, Error is nil exactly when OutputPath is set; a
\* successful result carries getOutputPath(FilePath), a file its job wrote in
\* full; a failed result carries the empty path and its job's write did not
\* succeed.
C8_ErrorNilIffOutputPath ==
    \A k \in DOMAIN Sent :
        LET r == Sent[k]
        IN /\ Succeeded(r) <=> r.OutputPath # <<>>
           /\ Succeeded(r) =>
                 /\ r.OutputPath = getOutputPath(r.FilePath)
                 /\ wrote[JobOf(r)]
                 /\ touched[JobOf(r)]
                 /\ fs[r.OutputPath].exists
           /\ ~Succeeded(r) =>
                 /\ r.OutputPath = <<>>
                 /\ ~wrote[JobOf(r)]

\* The pool returned a success and a failure whose write broke off after the
\* destination had been opened.
C8_Witness ==
    /\ PoolReturned
    /\ \E k \in DOMAIN allResults : Succeeded(allResults[k])
    /\ \E k \in DOMAIN allResults :
          /\ allResults[k].Error.kind = "failed to write MP3 file"
          /\ touched[JobOf(allResults[k])]

\* C9: after the run, the destination of every successful result holds exactly
\* the bytes of the 200 response body its job received.
C9_DestinationHoldsResponse ==
    PoolReturned =>
        \A k \in DOMAIN allResults :
            Succeeded(allResults[k]) =>
                fs[allResults[k].OutputPath] = File(resp[JobOf(allResults[k])].body)

\* C10: after the run, the destination of every successful result exists and
\* is not empty.
C10_DestinationNonEmpty ==
    PoolReturned =>
        \A k \in DOMAIN allResults :
            Succeeded(allResults[k]) =>
                /\ fs[allResults[k].OutputPath].exists
                /\ fs[allResults[k].OutputPath].data # <<>>

\* C11: no destination is written by more than one job: distinct jobs of a
\* run have distinct destination paths, so no two jobs ever open the same file.
C11_DistinctDestinations ==
    \A i, j \in JobIds :
        (i # j /\ touched[i] /\ touched[j]) =>
            getOutputPath(files[i]) # getOutputPath(files[j])

\* The workers that hold a job: between the receive from jobs and the send of
\* the job's result.
Processing == { w \in Workers : wpc[w] \in {"read", "post", "body", "open", "write", "send"} }

\* The workers with an HTTP request outstanding: client.Post was called and the
\* response is not yet read to its end.
Outstanding == { w \in Workers : wpc[w] \in {"post", "body"} }

\* C12: at every moment the number of jobs being processed, and so the number
\* of outstanding HTTP requests, is at most the configured workers value and at
\* most the number of jobs.
C12_AtMostWorkersInProcess ==
    /\ Cardinality(Processing) <= config.Workers
    /\ Cardinality(Processing) <= N
    /\ Cardinality(Outstanding) <= config.Workers
    /\ Cardinality(Outstanding) <= N
    /\ \A v, w \in Processing : v # w => wloc[v].job # wloc[w].job

\* The bound is reached: with two workers configured, both have a request
\* outstanding at once.
C12_Witness ==
    /\ config.Workers = 2
    /\ Cardinality(Outstanding) = 2

\* Job i has a result: sent to results, collected or not.
HasResult(i) == i \in JobIds /\ \E k \in DOMAIN Sent : Sent[k].FilePath = files[i]

\* C14: with a positive timeout and fair scheduling of the goroutines, every
\* enqueued job eventually produces a result and processFiles eventually
\* returns, even if the endpoint never answers.
C14_EveryJobYieldsResult ==
    (mpc = "spawn") ~> (PoolReturned /\ \A i \in JobIds : HasResult(i))

\* processFiles returned although a request got no answer: the client's
\* timeout ended the call and the job has its failed result.
C14_Witness ==
    /\ PoolReturned
    /\ \E k \in DOMAIN allResults :
          /\ expired[JobOf(allResults[k])]
          /\ allResults[k].Error = Err("failed to send request", "timeout")

\* C15: a job whose request ran into the client's timeout, before the headers
\* or during the read of the body, has a result whose error is the timeout
\* error, and no job that failed otherwise has that error.
C15_TimeoutErrorDistinct ==
    \A k \in DOMAIN Sent :
        /\ expired[JobOf(Sent[k])] => Sent[k].Error.cause = "timeout"
        /\ ~expired[JobOf(Sent[k])] => Sent[k].Error.cause # "timeout"

\* C16: a job whose source file cannot be read gets the read error as its
\* result, no HTTP request is issued for it and it never opens its destination,
\* which stays as it was unless another job wrote it.
C16_UnreadableSourceNoRequest ==
    /\ \A i \in JobIds :
          unreadable[i] =>
              /\ requests[i] = 0
              /\ ~touched[i]
              /\ resp[i] = NoResp
              /\ (\A j \in JobIds :
                      getOutputPath(files[j]) = getOutputPath(files[i]) => ~touched[j])
                     => fs[getOutputPath(files[i])] = fs0[getOutputPath(files[i])]
    /\ \A w \in Workers :
          (wloc[w].job # 0 /\ unreadable[wloc[w].job]) =>
              /\ wpc[w] = "send"
              /\ wloc[w].err = Err("failed to read file", "enoent")
    /\ \A k \in DOMAIN Sent :
          unreadable[JobOf(Sent[k])] <=>
              Sent[k].Error.kind = "failed to read file"

\* The pool returned; one job's source was unreadable and its destination does
\* not exist, another job succeeded.
C16_Witness ==
    /\ PoolReturned
    /\ \E i \in JobIds :
          /\ unreadable[i]
          /\ ~fs[getOutputPath(files[i])].exists
    /\ \E k \in DOMAIN allResults : Succeeded(allResults[k])

\* C17: a response whose status is not 200 (201 included) makes the job fail
\* with the server error that carries the status and the body the endpoint sent,
\* byte for byte, and the job does not open its destination.
C17_Non200IsServerError ==
    \A w \in Workers :
        (wpc[w] = "send" /\ wloc[w].status \notin {0, 200}) =>
            /\ wloc[w].err = StatusErr(wloc[w].status, wloc[w].sent)
            /\ wloc[w].out = <<>>
            /\ ~touched[wloc[w].job]

\* C18: at most one HTTP request is issued per job: a job is enqueued and
\* received once, a failed job is not submitted again, and a job whose source
\* could not be read issues no request.
C18_AtMostOneRequestPerJob ==
    /\ \A i \in JobIds :
          /\ requests[i] <= 1
          /\ recvCount[i] <= 1
          /\ unreadable[i] => requests[i] = 0
          /\ Cardinality({k \in DOMAIN jobs : jobs[k] = i}) + recvCount[i]
                 = (IF i <= enqueued THEN 1 ELSE 0)
    /\ \A k \in DOMAIN Sent :
          (~Succeeded(Sent[k]) /\ ~unreadable[JobOf(Sent[k])]) =>
              requests[JobOf(Sent[k])] = 1

\* The pool returned; one job failed after its single request timed out and
\* another failed on its read without any request.
C18_Witness ==
    /\ PoolReturned
    /\ \E i \in JobIds : expired[i] /\ requests[i] = 1 /\ ~wrote[i]
    /\ \E i \in JobIds : unreadable[i] /\ requests[i] = 0

\* Index of the last separator of a path, 0 when it has none.
LastSlash(p) ==
    LET slashes == { i \in DOMAIN p : p[i] = "/" }
    IN IF slashes = {} THEN 0 ELSE CHOOSE i \in slashes : \A j \in slashes : j <= i

\* A path without the final extension of its last element: cut at the last
\* dot after the last separator, whole when there is no such dot.
Stem(p) ==
    LET dots == { i \in DOMAIN p : p[i] = "." /\ i > LastSlash(p) }
    IN IF dots = {} THEN p
       ELSE SubSeq(p, 1, (CHOOSE i \in dots : \A j \in dots : j <= i) - 1)

\* C19: getOutputPath replaces only the final extension of the last path
\* element with .mp3, the directory part and every earlier dot stay; a name
\* without extension gets .mp3 appended.
C19_OnlyFinalExtensionReplaced ==
    pathRet # <<>> =>
        /\ pathRet = Stem(pathArg) \o <<".", "m", "p", "3">>
        /\ pathArg = <<"c", "h", "a", "p", "t", "e", "r", "1", ".", "t", "x", "t">> => pathRet = <<"c", "h", "a", "p", "t", "e", "r", "1", ".", "m", "p", "3">>
        /\ pathArg = <<"b", "o", "o", "k", ".", "c", "h", "a", "p", "t", "e", "r", "1", ".", "t", "x", "t">> => pathRet = <<"b", "o", "o", "k", ".", "c", "h", "a", "p", "t", "e", "r", "1", ".", "m", "p", "3">>
        /\ pathArg = <<"f", "i", "l", "e", ".", "t", "x", "t", ".", "b", "a", "c", "k", "u", "p">> => pathRet = <<"f", "i", "l", "e", ".", "t", "x", "t", ".", "m", "p", "3">>
        /\ pathArg = <<"r", "e", "a", "d", "m", "e">> => pathRet = <<"r", "e", "a", "d", "m", "e", ".", "m", "p", "3">>
        /\ pathArg = <<"d", "i", "r", ".", "v", "2", "/", "r", "e", "a", "d", "m", "e">> => pathRet = <<"d", "i", "r", ".", "v", "2", "/", "r", "e", "a", "d", "m", "e", ".", "m", "p", "3">>

\* getOutputPath returned for file.txt.backup: only .backup was replaced.
C19_Witness ==
    /\ pathArg = <<"f", "i", "l", "e", ".", "t", "x", "t", ".", "b", "a", "c", "k", "u", "p">>
    /\ pathRet = <<"f", "i", "l", "e", ".", "t", "x", "t", ".", "m", "p", "3">>

\* What the run with one worker leaves at destination p when every job meets
\* the same answers and the same disk errors: the jobs run one after the other
\* in the order of files, so p holds what the last job that opened it left
\* there, and its content from before the run when no job opened it.
SequentialFinal(p) ==
    LET writers == { i \in JobIds : touched[i] /\ getOutputPath(files[i]) = p }
    IN IF writers = {} THEN fs0[p]
       ELSE left[CHOOSE i \in writers : \A j \in writers : j <= i]

\* C13: whatever the number of workers and the interleaving, the run yields
\* the results and leaves the destination contents that the run with one worker
\* yields against the same deterministic endpoint: one result per job that
\* depends on the job's own outcome only, and at every destination what the
\* jobs processed in list order leave there.
C13_SameAsOneWorker ==
    PoolReturned =>
        /\ \A i \in JobIds :
              \E k \in DOMAIN allResults :
                  /\ allResults[k].FilePath = files[i]
                  /\ Succeeded(allResults[k]) <=> wrote[i]
                  /\ allResults[k].OutputPath =
                         (IF wrote[i] THEN getOutputPath(files[i]) ELSE <<>>)
        /\ \A p \in DestPaths : fs[p] = SequentialFinal(p)

\* C20: when the pool is run again on the same files and every job gets the
\* same 200 response as in the first run, every destination holds the same
\* bytes as after the first run and the second run counts the same successes.
C20_RerunSameOutput ==
    (/\ runNo = 2
     /\ mpc = "exited"
     /\ first.successful = N
     /\ \A i \in JobIds : wrote[i] /\ resp[i] = first.resp[i])
    => /\ fs = first.fs
       /\ summary.successful = first.successful
       /\ summary.failed = 0

\* C21: printSummary counts a result as successful exactly when its Error is
\* nil and as failed otherwise: successful + failed = total = number of jobs,
\* and the counts are those of the jobs' outcomes, whatever order the results
\* arrived in.
C21_SummaryCountsPartition ==
    summary.printed =>
        /\ summary.total = N
        /\ summary.successful + summary.failed = summary.total
        /\ summary.successful =
               Cardinality({ k \in DOMAIN allResults : allResults[k].Error = NilErr })
        /\ summary.failed =
               Cardinality({ k \in DOMAIN allResults : allResults[k].Error # NilErr })
        /\ summary.successful = Cardinality({ i \in JobIds : wrote[i] })

\* The summary was printed for one success and one failure whose results
\* arrived in the reverse of the order of the files.
C21_Witness ==
    /\ summary.printed
    /\ summary.successful = 1
    /\ summary.failed = 1
    /\ allResults[1].FilePath = files[2]

\* C22: when the scanner found no file, the run ends with success and never
\* enters the pool: no worker is started, no request is issued and the disk
\* stays as it was (the only other end is the scanner's own error).
C22_ZeroJobsNoOp ==
    N = 0 =>
        /\ mpc \in {"scan", "exited"}
        /\ mpc = "exited" => exitCode \in {0, 1}
        /\ started = 0
        /\ wg = 0
        /\ \A w \in Workers : wpc[w] = "none" /\ wloc[w] = NoLocals
        /\ jobs = <<>> /\ results = <<>>
        /\ ~summary.printed
        /\ fs = fs0

\* The scanner found nothing and the run has ended with status 0.
C22_Witness ==
    /\ N = 0
    /\ mpc = "exited"
    /\ exitCode = 0

\* main has parsed the command line: config holds the effective values.
FlagsParsed == mpc \in {"validate", "scan"} \/ (mpc = "exited" /\ exitCode = 1)

\* C23: every AppConfig with which run, and so processFiles, is entered has
\* workers >= 1, a non-empty server URL and a timeout > 0, whatever config.json
\* and the command line hold.
C23_ValidatedConfigReachesRun ==
    mpc = "scan" =>
        /\ config.Workers >= 1
        /\ config.ServerURL # ""
        /\ config.Timeout > 0

\* config.json holds a usable value: the file was read and parsed.
FileParsed == cfgFile.state = "ok"

FileAccepted == FileParsed /\ cfgFile.server_url # ""

C28_SkipExistingSkips ==
    (runNo = 2 /\ flags.skipExisting /\ mpc = "exited") =>
        /\ exitCode = 0
        /\ \A i \in JobIds :
              first.fs[getOutputPath(files[i])].exists =>
                  /\ requests[i] = 0
                  /\ fs[getOutputPath(files[i])] = first.fs[getOutputPath(files[i])]

\* processFiles is past its start loop.
WorkersStarted ==
    \/ mpc \in {"enqueue", "close", "go", "collect", "finish", "summary", "return"}
    \/ mpc = "exited" /\ summary.printed

\* C29: processFiles starts exactly min(config.Workers, len(files)) workers:
\* never more than there are jobs or than configured, and no fewer.
C29_StartsMinWorkers ==
    /\ started <= config.Workers
    /\ started <= N
    /\ Cardinality({ w \in Workers : wpc[w] # "none" }) = started
    /\ WorkersStarted =>
           started = (IF config.Workers <= N THEN config.Workers ELSE N)

\* Two workers are configured for a single file: one worker was started and
\* the pool returned.
C29_Witness ==
    /\ config.Workers = 2
    /\ N = 1
    /\ started = 1
    /\ PoolReturned

\* C30: a worker terminates only when the job queue is closed and empty, and
\* once the queue is closed and drained every worker does terminate, under
\* fair scheduling.
C30_WorkersEndWhenDrained ==
    /\ [](\A w \in Workers : wpc[w] = "done" => (jobsClosed /\ jobs = <<>>))
    /\ (jobsClosed /\ jobs = <<>>) ~> (\A w \in Workers : wpc[w] \in {"none", "done"})

\* One worker has terminated on the drained queue while the other is still
\* at work on the last job.
C30_Witness ==
    /\ wpc[1] = "done"
    /\ wpc[2] \in {"read", "post", "body", "open", "write"}

\* A step of worker w, its own or the endpoint's answer to its request.
WorkerStep(w) == WorkerLocalStep(w) \/ EndpointStep(w)

\* The workers that have executed their deferred wg.Done().
DoneWriters == { w \in Workers : wpc[w] = "done" }

MaxDepth == 1

\* The names of the plain files a directory may hold and the name of its one
\* sub-directory, which looks like a text file's.
FileNames ==
    << <<"a", ".", "T", "X", "T">>,
       <<"a", ".", "t", "x", "t">>,
       <<"c", ".", "m", "d">>,
       <<"e", ".", "t", "x", "t">> >>
SubDirName == <<"d", ".", "t", "x", "t">>

\* The names a directory may hold in the order os.ReadDir and filepath.Walk
\* list them: sorted by name, upper case before lower case.
NameOrder == SubSeq(FileNames, 1, 3) \o <<SubDirName>> \o SubSeq(FileNames, 4, 4)

\* What -scan may name when it is not a directory.
RootFileNames == { FileNames[i] : i \in DOMAIN FileNames } \cup { <<"n", "o", "t", "e", "s">> }
RootDirName == <<"b", "o", "o", "k", "s">>

\* The listing of a directory holding the plain files of FileNames with index
\* in idx and the sub-directory entry sub (<<>> when it has none), in NameOrder.
RECURSIVE FileEntries(_, _, _)
FileEntries(idx, sub, i) ==
    IF i > Len(NameOrder) THEN <<>>
    ELSE (IF NameOrder[i] = SubDirName THEN sub
          ELSE IF \E j \in idx : FileNames[j] = NameOrder[i]
               THEN <<[kind |-> "file", name |-> NameOrder[i], kids |-> <<>>]>>
               ELSE <<>>) \o FileEntries(idx, sub, i + 1)

\* The listings of a directory with at most d levels below it: some plain
\* files and no sub-directory, one that cannot be read, or one with a listing.
RECURSIVE Listings(_)
Listings(d) ==
    LET subs == { <<>>, <<[kind |-> "denied", name |-> SubDirName, kids |-> <<>>]>> }
                \cup (IF d = 0 THEN {}
                      ELSE { <<[kind |-> "dir", name |-> SubDirName, kids |-> k]>> :
                                 k \in Listings(d - 1) })
    IN { FileEntries(idx, s, 1) : idx \in SUBSET DOMAIN FileNames, s \in subs }

\* What the -scan path names on disk: nothing, a plain file, a directory that
\* cannot be read, or a directory with a listing.
ScanTrees ==
    { [kind |-> "missing", name |-> RootDirName, kids |-> <<>>],
      [kind |-> "denied", name |-> RootDirName, kids |-> <<>>] }
    \cup { [kind |-> "file", name |-> n, kids |-> <<>>] : n \in RootFileNames }
    \cup { [kind |-> "dir", name |-> RootDirName, kids |-> k] : k \in Listings(MaxDepth) }

\* strings.ToLower on the letters file names are made of
ToLower(s) ==
    [i \in DOMAIN s |->
        CASE s[i] = "T" -> "t"
          [] s[i] = "X" -> "x"
          [] OTHER -> s[i]]

\* filepath.Join(rootPath, name)
Join(rootPath, name) == rootPath \o <<"/">> \o name

\* The extension test, mutated: the extension is compared as it is written
IsTxt_CaseSensitive(path) == Ext(path) = <<".", "t", "x", "t">>

\* strings.ToLower(filepath.Ext(path)) == ".txt"
IsTxt(path) == ToLower(Ext(path)) = <<".", "t", "x", "t">>

\* filepath.Walk with discoverFiles' callback: the .txt files below path in
\* lexical order; a path that cannot be accessed is logged and passed over.
RECURSIVE WalkEntry(_, _), WalkListing(_, _, _)
WalkEntry(e, path) ==
    CASE e.kind = "file" -> IF IsTxt(path) THEN <<path>> ELSE <<>>
      [] e.kind = "dir" -> WalkListing(e.kids, path, 1)
      [] OTHER -> <<>>
WalkListing(kids, path, i) ==
    IF i > Len(kids) THEN <<>>
    ELSE WalkEntry(kids[i], Join(path, kids[i].name)) \o WalkListing(kids, path, i + 1)

\* filepath.Walk with discoverFiles' callback: the paths the callback is handed
\* with an error and logs a warning for, in walk order.
RECURSIVE WarnEntry(_, _), WarnListing(_, _, _)
WarnEntry(e, path) ==
    CASE e.kind \in {"missing", "denied"} -> <<path>>
      [] e.kind = "dir" -> WarnListing(e.kids, path, 1)
      [] OTHER -> <<>>
WarnListing(kids, path, i) ==
    IF i > Len(kids) THEN <<>>
    ELSE WarnEntry(kids[i], Join(path, kids[i].name)) \o WarnListing(kids, path, i + 1)

\* The loop over os.ReadDir's entries: directories are skipped, .txt files joined
\* to the root path.
RECURSIVE ReadDirFiles(_, _, _)
ReadDirFiles(kids, rootPath, i) ==
    IF i > Len(kids) THEN <<>>
    ELSE (IF kids[i].kind = "file" /\ IsTxt(kids[i].name)
          THEN <<Join(rootPath, kids[i].name)>> ELSE <<>>)
         \o ReadDirFiles(kids, rootPath, i + 1)

\* discoverFiles(rootPath, recursive): the files and whether an error is returned.
\* os.ReadDir fails on anything but a readable directory; filepath.Walk hands
\* every error to the callback, which returns nil.
discoverFiles(tree, recursive) ==
    IF recursive
    THEN [err |-> FALSE, files |-> WalkEntry(tree, tree.name),
          warned |-> WarnEntry(tree, tree.name)]
    ELSE IF tree.kind = "dir"
         THEN [err |-> FALSE, files |-> ReadDirFiles(tree.kids, tree.name, 1), warned |-> <<>>]
         ELSE [err |-> TRUE, files |-> <<>>, warned |-> <<>>]

\* run is entered with some -scan path on disk and -recursive set or not.
ScanInit ==
    /\ scanTree \in ScanTrees
    /\ scanned \in { [NoScan EXCEPT !.recursive = r] : r \in BOOLEAN }
    /\ files = <<>>
    /\ config = [Workers |-> 1, Timeout |-> MinTimeout,
                 ServerURL |-> DefaultServerURL, ScanPath |-> scanTree.name]
    /\ fs = [p \in DestPaths |-> NoFile]
    /\ fs0 = fs
    /\ mpc = "discover"
    /\ PoolIdle
    /\ runNo = 1
    /\ first = NoFirst
    /\ pathArg = <<>>
    /\ pathRet = <<>>
    /\ flags = NoFlags
    /\ cfgFile = NoCfgFile
    /\ clientConfig = NoClientConfig
    /\ printed = NoPrint

\* files, err := discoverFiles(config.ScanPath, config.Recursive)
RunDiscoverFiles ==
    /\ mpc = "discover"
    /\ LET r == discoverFiles(scanTree, scanned.recursive)
       IN /\ scanned' = [scanned EXCEPT !.done = TRUE, !.err = r.err,
                                        !.files = r.files, !.warned = r.warned]
          /\ files' = r.files
    /\ mpc' = "scan"
    /\ UNCHANGED <<config, runNo, first, pathArg, pathRet, flags, cfgFile,
                   clientConfig, scanTree, printed, fs, started, enqueued, chanVars, wg, cpc,
                   allResults, wpc, wloc, barCount, barFinished, summary, exitCode,
                   panicked, ghostVars>>

\* if err != nil { return fmt.Errorf("failed to scan files: %w", err) }
RunScanError == scanned.done /\ scanned.err /\ ScanFail

\* if len(files) == 0 { return nil }
RunNoFiles == scanned.done /\ ~scanned.err /\ ScanEmpty

\* processFiles(files, config) is called with the files found
RunFilesFound == scanned.done /\ ~scanned.err /\ ScanFound

ScanNext == RunDiscoverFiles \/ RunScanError \/ RunNoFiles \/ RunFilesFound

ScanSpec == ScanInit /\ [][ScanNext]_vars

\* C25: when -scan names a single regular .txt file, discoverFiles returns
\* that file as the one job, without error, with and without -recursive, and
\* run goes on to convert it.
C25_SingleFileIsOneJob ==
    (scanned.done /\ scanTree.kind = "file" /\ IsTxt(scanTree.name)) =>
        /\ ~scanned.err
        /\ scanned.files = <<scanTree.name>>
        /\ files = <<scanTree.name>>
        /\ mpc \in {"scan", "spawn"}

\* C31: the pool cannot deadlock: the producer's send always finds room in
\* the job queue, a worker's send always finds room in the result channel
\* (and the channel open), and until main has exited some goroutine of the
\* run can take a step.
C31_PoolCannotDeadlock ==
    /\ mpc = "enqueue" => Len(jobs) < N
    /\ \A w \in Workers : wpc[w] = "send" => (Len(results) < N /\ ~resultsClosed)
    /\ ~panicked
    /\ mpc # "exited" => ENABLED Next

\* The workers have sent both results before the producer has even closed
\* the queue and before the collector has taken any: the result channel is
\* filled to its capacity.
C31_Witness ==
    /\ N = 2
    /\ Len(results) = 2
    /\ mpc = "close"

\* The workers waiting at the head of their loop for the next job.
Free == { w \in Workers : wpc[w] = "recv" }

C33_DequeuedInInputOrder ==
    /\ \A k, l \in DOMAIN jobs : k < l => jobs[k] < jobs[l]
    /\ \A k \in DOMAIN jobs : jobs[k] <= enqueued /\ recvCount[jobs[k]] = 0
    /\ \A i, j \in JobIds : (i < j /\ recvCount[j] > 0) => recvCount[i] > 0
    /\ \A i \in JobIds :
          (i <= enqueued /\ recvCount[i] = 0) => \E k \in DOMAIN jobs : jobs[k] = i

\* Job 1 has been dequeued and is in process, job 2 is at the head of the
\* queue and a second worker is free to take it.
C33_Witness ==
    /\ recvCount = <<1, 0>>
    /\ jobs = <<2>>
    /\ \E w \in Workers : wloc[w].job = 1
    /\ Free # {}

\* C34: with one worker the files are processed strictly one after the other:
\* at most one job is in process, a job is dequeued only after the result of
\* the job before it has been sent, and the results are sent, collected and
\* returned in input order.
C34_OneWorkerIsSequential ==
    config.Workers = 1 =>
        /\ started <= 1
        /\ Cardinality({ w \in Workers : wloc[w].job # 0 }) <= 1
        /\ Cardinality(Processing) <= 1
        /\ \A i \in JobIds :
              (i > 1 /\ recvCount[i] > 0) =>
                  /\ Len(Sent) >= i - 1
                  /\ \A w \in Workers : wloc[w].job # i - 1
        /\ \A k \in DOMAIN Sent : Sent[k].FilePath = files[k]
        /\ PoolReturned =>
              /\ Len(allResults) = N
              /\ \A k \in JobIds : allResults[k].FilePath = files[k]

\* The single worker has sent the result of job 1 and is in process on job 2.
C34_Witness ==
    /\ config.Workers = 1
    /\ N = 2
    /\ Len(Sent) = 1
    /\ wloc[1].job = 2
    /\ wpc[1] \in {"post", "body", "open", "write"}

\* The jobs that have been dequeued.
Dequeued == { i \in JobIds : recvCount[i] > 0 }

\* C35: progress advances by exactly 1 per job, after the job's result has
\* been sent: progress count <= results sent <= jobs dequeued <= N, the
\* results sent and not yet counted are those of the workers between their
\* send and their bar.Add, and bar.Finish is called only after all N updates.
C35_ProgressFollowsResults ==
    /\ barCount <= Len(Sent)
    /\ Len(Sent) <= Cardinality(Dequeued)
    /\ Cardinality(Dequeued) <= N
    /\ Len(Sent) - barCount = Cardinality({ w \in Workers : wpc[w] = "add" })
    /\ barFinished => barCount = N
    /\ PoolReturned => (barFinished /\ barCount = N)

\* Both results have been sent, one worker has advanced the bar and the other
\* is between its send and its bar.Add.
C35_Witness ==
    /\ N = 2
    /\ Len(Sent) = 2
    /\ barCount = 1
    /\ \E w \in Workers : wpc[w] = "add"

\* ------------------------------------------ main.go: printSummary on its own
\* filepath.Base of a file path: the element after the last separator
Base(path) == SubSeq(path, LastSlash(path) + 1, Len(path))

\* The itemized list, mutated: the lines are printed whenever a job failed,
\* verbose or not
FailedFilesLines_AnyMode(rs, verbose) ==
    IF Tally(rs, 0, 0).failed > 0
    THEN <<"Failed files:">>
         \o [k \in 1..Len(SelectSeq(rs, LAMBDA r : r.Error # NilErr)) |->
                <<"-", Base(SelectSeq(rs, LAMBDA r : r.Error # NilErr)[k].FilePath),
                  SelectSeq(rs, LAMBDA r : r.Error # NilErr)[k].Error>>]
    ELSE <<>>

\* if failed > 0 && verbose: the heading and one line per failed result, in
\* slice order, with the base name of its file and its error
FailedFilesLines(rs, verbose) ==
    IF Tally(rs, 0, 0).failed > 0 /\ verbose
    THEN <<"Failed files:">>
         \o [k \in 1..Len(SelectSeq(rs, LAMBDA r : r.Error # NilErr)) |->
                <<"-", Base(SelectSeq(rs, LAMBDA r : r.Error # NilErr)[k].FilePath),
                  SelectSeq(rs, LAMBDA r : r.Error # NilErr)[k].Error>>]
    ELSE <<>>

\* printSummary(results, verbose): the lines written to standard output
printSummary(rs, verbose) ==
    LET t == Tally(rs, 0, 0)
    IN << "=== Summary ===",
          <<"Total files:", Len(rs)>>,
          <<"Successful:", t.successful>>,
          <<"Failed:", t.failed>> >>
       \o FailedFilesLines(rs, verbose)

\* The results a job on file f can end with.
ResultsOf(f) ==
    { [FilePath |-> f, OutputPath |-> getOutputPath(f), Error |-> NilErr],
      [FilePath |-> f, OutputPath |-> <<>>, Error |-> Err("failed to read file", "enoent")],
      [FilePath |-> f, OutputPath |-> <<>>, Error |-> StatusErr(500, <<>>)] }

\* The slices processFiles can return for the files fl: one result per file,
\* in any order.
ResultLists(fl) ==
    { rs \in [DOMAIN fl -> UNION { ResultsOf(fl[i]) : i \in DOMAIN fl }] :
          \E perm \in [DOMAIN fl -> DOMAIN fl] :
              /\ \A i, j \in DOMAIN fl : perm[i] = perm[j] => i = j
              /\ \A k \in DOMAIN fl : rs[k].FilePath = fl[perm[k]] }

\* processFiles has returned some results, printSummary is about to be called
\* with verbose set or not.
SummaryInit ==
    /\ files \in JobLists \ { <<>> }
    /\ allResults \in ResultLists(files)
    /\ printed \in { [NoPrint EXCEPT !.verbose = v] : v \in BOOLEAN }
    /\ config = [Workers |-> 1, Timeout |-> MinTimeout,
                 ServerURL |-> DefaultServerURL, ScanPath |-> "books"]
    /\ fs = [p \in DestPaths |-> NoFile]
    /\ fs0 = fs
    /\ mpc = "summary"
    /\ started = 0
    /\ enqueued = 0
    /\ jobs = <<>>
    /\ jobsClosed = FALSE
    /\ results = <<>>
    /\ resultsClosed = FALSE
    /\ wg = 0
    /\ cpc = "none"
    /\ wpc = [w \in Workers |-> "none"]
    /\ wloc = [w \in Workers |-> NoLocals]
    /\ barCount = 0
    /\ barFinished = FALSE
    /\ summary = [printed |-> FALSE, total |-> 0, successful |-> 0, failed |-> 0]
    /\ exitCode = -1
    /\ panicked = FALSE
    /\ recvCount = [i \in JobIds |-> 0]
    /\ requests = [i \in JobIds |-> 0]
    /\ resp = [i \in JobIds |-> NoResp]
    /\ touched = [i \in JobIds |-> FALSE]
    /\ wrote = [i \in JobIds |-> FALSE]
    /\ unreadable = [i \in JobIds |-> FALSE]
    /\ expired = [i \in JobIds |-> FALSE]
    /\ left = [i \in JobIds |-> NoFile]
    /\ runNo = 1
    /\ first = NoFirst
    /\ pathArg = <<>>
    /\ pathRet = <<>>
    /\ flags = NoFlags
    /\ cfgFile = NoCfgFile
    /\ clientConfig = NoClientConfig
    /\ scanTree = NoTree
    /\ scanned = NoScan

\* printSummary(results, config.Verbose): the counts and the lines it prints
RunPrintSummary ==
    /\ mpc = "summary"
    /\ LET t == Tally(allResults, 0, 0)
       IN summary' = [printed |-> TRUE, total |-> Len(allResults),
                      successful |-> t.successful, failed |-> t.failed]
    /\ printed' = [printed EXCEPT !.done = TRUE,
                                  !.lines = printSummary(allResults, printed.verbose)]
    /\ mpc' = "return"
    /\ UNCHANGED <<files, config, runNo, first, pathArg, pathRet, flags, cfgFile,
                   clientConfig, scanTree, scanned, fs, started, enqueued, chanVars,
                   wg, cpc, allResults, wpc, wloc, barCount, barFinished, exitCode,
                   panicked, ghostVars>>

SummaryNext == RunPrintSummary \/ Exit

SummarySpec == SummaryInit /\ [][SummaryNext]_vars

\* The failed results of the slice, in slice order.
FailedOf(rs) == SelectSeq(rs, LAMBDA r : r.Error # NilErr)

\* C36: the summary always prints the aggregate counts; the itemized list,
\* one line per failed result with the base name of its file and its error,
\* is printed only when verbose is set and at least one job failed; with
\* verbose unset no per-file line is printed.
C36_ItemizedOnlyWhenVerbose ==
    printed.done =>
        /\ Len(printed.lines) >= 4
        /\ printed.lines[2] = <<"Total files:", Len(allResults)>>
        /\ printed.lines[3] = <<"Successful:", Len(allResults) - Len(FailedOf(allResults))>>
        /\ printed.lines[4] = <<"Failed:", Len(FailedOf(allResults))>>
        /\ IF printed.verbose /\ FailedOf(allResults) # <<>>
           THEN /\ Len(printed.lines) = 5 + Len(FailedOf(allResults))
                /\ \A k \in DOMAIN FailedOf(allResults) :
                      /\ printed.lines[5 + k][2] = Base(FailedOf(allResults)[k].FilePath)
                      /\ printed.lines[5 + k][3] = FailedOf(allResults)[k].Error
           ELSE Len(printed.lines) = 4

\* Verbose is unset and a job in a sub-directory failed: the counts were
\* printed, with one failure, and no line for the file.
C36_Witness ==
    /\ printed.done
    /\ ~printed.verbose
    /\ summary.failed = 1
    /\ \E k \in DOMAIN allResults :
          allResults[k].Error # NilErr /\ LastSlash(allResults[k].FilePath) > 0
    /\ Len(printed.lines) = 4

\* The entries below a directory listing, each with its path, its kind and
\* whether it is a direct child of the root.
RECURSIVE EntriesBelow(_, _, _)
EntriesBelow(kids, path, direct) ==
    UNION { { [path |-> Join(path, kids[k].name), kind |-> kids[k].kind, direct |-> direct] }
            \cup EntriesBelow(kids[k].kids, Join(path, kids[k].name), FALSE) :
            k \in DOMAIN kids }

\* The name ends in .txt, in any mix of upper and lower case.
EndsInTxt(path) ==
    /\ Len(path) >= 4
    /\ path[Len(path) - 3] = "."
    /\ path[Len(path) - 2] \in {"t", "T"}
    /\ path[Len(path) - 1] \in {"x", "X"}
    /\ path[Len(path)] \in {"t", "T"}

\* The paths a scan of the directory is to return.
TextFilesOf(tree, recursive) ==
    { e.path : e \in { d \in EntriesBelow(tree.kids, tree.name, TRUE) :
                           /\ d.kind = "file"
                           /\ EndsInTxt(d.path)
                           /\ recursive \/ d.direct } }

\* C37: on a directory discoverFiles returns, without error and each once,
\* exactly the non-directory entries whose extension is .txt in any case: the
\* direct children in non-recursive mode, every descendant in recursive mode;
\* a recursive walk never returns an error: it warns about each path it
\* cannot access and goes on.
C37_ReturnsExactlyTextFiles ==
    scanned.done =>
        /\ scanTree.kind = "dir" =>
              /\ ~scanned.err
              /\ { scanned.files[k] : k \in DOMAIN scanned.files }
                     = TextFilesOf(scanTree, scanned.recursive)
              /\ Len(scanned.files) = Cardinality(TextFilesOf(scanTree, scanned.recursive))
        /\ scanned.recursive =>
              /\ ~scanned.err
              /\ { scanned.warned[k] : k \in DOMAIN scanned.warned }
                     = { e.path : e \in { d \in EntriesBelow(scanTree.kids, scanTree.name, TRUE) :
                                              d.kind = "denied" } }
                       \cup (IF scanTree.kind \in {"missing", "denied"}
                             THEN {scanTree.name} ELSE {})

\* A recursive walk met a sub-directory it could not read and went on: the
\* text file listed after it is among the files returned, next to an
\* upper-case .TXT.
C37_Witness ==
    /\ scanned.done
    /\ scanned.recursive
    /\ scanTree.kind = "dir"
    /\ \E k \in DOMAIN scanTree.kids : scanTree.kids[k].kind = "denied"
    /\ scanned.files = << Join(RootDirName, FileNames[1]), Join(RootDirName, FileNames[4]) >>
    /\ scanned.warned = << Join(RootDirName, SubDirName) >>

====
